---- MODULE Spec2Model ----
(***************************************************************************)
(* Fourier epicycle visualizer: the series engine (fourier_math.py) and    *)
(* the animation driver (fourier_visualizer.py).                           *)
(*                                                                         *)
(* Time is counted in quanta.  One quantum is the time step of one unit of *)
(* the speed slider (speed_value / 2500.0), pi is Resolution quanta and    *)
(* the period 2*pi is TwoPi quanta.  The source has 2*pi ~ 15708 quanta    *)
(* and a slider of 1..100; the model shrinks both and keeps the slider's   *)
(* largest step below one period.                                          *)
(*                                                                         *)
(* amplitude is the pair <<num, den>> standing for num / (pi * den).       *)
(* A projected point is the sequence of <<amplitude, angle mod 2*pi>> that *)
(* the chained cos/sin sum is computed from.                               *)
(***************************************************************************)
EXTENDS Integers, Sequences, FiniteSets, TLC

\* ---------------------------------------------------------------- bounds
Resolution == 2
MaxSpeed == 2
MaxTerms == 2
MaxCap == 2
MaxNeg == 1

\* ------------------------------------------------------------- constants
Pi == Resolution
TwoPi == 2 * Pi
DefaultMaxTerms == 10
MinTerms == 1
SpeedSliderMin == 1
SpeedSliderMax == MaxSpeed
SpeedSliderInitial == (SpeedSliderMin + SpeedSliderMax) \div 2
FunctionTypes == {"rectangular", "sawtooth"}
TermArgs == (0 - MaxNeg)..MaxTerms
NoPoint == <<"none">>

VARIABLES
    function_type,      \* FourierSeries.function_type
    epicycles,          \* FourierSeries.epicycles
    ftime,              \* FourierSeries.time
    max_terms,          \* FourierSeries.max_terms
    time,               \* FourierVisualizer.time
    animation_speed,    \* FourierVisualizer.animation_speed
    paused,             \* FourierVisualizer.paused
    trace_points,       \* FourierVisualizer.trace_points
    max_trace_length,   \* FourierVisualizer.max_trace_length
    slider_terms,       \* FourierVisualizer.slider_terms.value
    slider_speed,       \* FourierVisualizer.slider_speed.value
    running,            \* FourierVisualizer.running
    pc,                 \* run loop: "events", "draw", "done"; "engine" in SpecEngine
    lastOp,             \* history: the operation that completed last
    arg,                \* history: num_terms of the last generation call
    outcome,            \* history: how the last generation call ended
    npush,              \* history: pushes since the last clear (saturating)
    secondPushed,       \* history: the second point pushed since the last clear
    paused_before       \* history: paused as it was before the last operation

engineVars == <<function_type, epicycles, ftime, max_terms>>
driverVars == <<time, animation_speed, paused, trace_points, max_trace_length,
                slider_terms, slider_speed, running, pc>>
historyVars == <<lastOp, arg, outcome, npush, secondPushed, paused_before>>
vars == <<function_type, epicycles, ftime, max_terms,
          time, animation_speed, paused, trace_points, max_trace_length,
          slider_terms, slider_speed, running, pc,
          lastOp, arg, outcome, npush, secondPushed, paused_before>>

\* ------------------------------------------------------------ the engine
Epicycle(frequency, amplitude, phase) ==
    [frequency |-> frequency, amplitude |-> amplitude, phase |-> phase, angle |-> 0]

calculate_rectangular(num_terms) ==
    [n \in 1..num_terms |-> Epicycle(2 * n - 1, <<4, 2 * n - 1>>, 0)]

\* mutant: the sign test inverted
calculate_sawtooth_sign_flipped(num_terms) ==
    [n \in 1..num_terms |->
        LET sign == IF n % 2 = 0 THEN 1 ELSE -1
        IN  Epicycle(n, <<2, n>>, IF sign > 0 THEN 0 ELSE Pi)]

calculate_sawtooth(num_terms) ==
    [n \in 1..num_terms |->
        LET sign == IF n % 2 = 1 THEN 1 ELSE -1
        IN  Epicycle(n, <<2, n>>, IF sign > 0 THEN 0 ELSE Pi)]

fourier_update(eps, t) ==
    [k \in 1..Len(eps) |->
        [eps[k] EXCEPT !.angle = eps[k].frequency * t + eps[k].phase]]

get_final_point(eps) ==
    [k \in 1..Len(eps) |-> <<eps[k].amplitude, eps[k].angle % TwoPi>>]

\* self.epicycles = epicycles; self.max_terms = num_terms; return epicycles
store_rectangular(num_terms) ==
    /\ epicycles' = calculate_rectangular(num_terms)
    /\ max_terms' = num_terms
    /\ arg' = num_terms
    /\ outcome' = "returned"

store_sawtooth(num_terms) ==
    /\ epicycles' = calculate_sawtooth(num_terms)
    /\ max_terms' = num_terms
    /\ arg' = num_terms
    /\ outcome' = "returned"

set_function_type(ft) ==
    /\ function_type' = ft
    /\ IF ft = "rectangular" THEN store_rectangular(max_terms)
       ELSE store_sawtooth(max_terms)

\* The engine on its own: any caller, any argument.
InitEngine ==
    /\ function_type \in FunctionTypes
    /\ epicycles = <<>>
    /\ ftime = 0
    /\ max_terms = DefaultMaxTerms
    /\ time = 0
    /\ animation_speed = SpeedSliderMin
    /\ paused = FALSE
    /\ trace_points = <<>>
    /\ max_trace_length = 1
    /\ slider_terms = MinTerms
    /\ slider_speed = SpeedSliderInitial
    /\ running = TRUE
    /\ pc = "engine"
    /\ lastOp = "init"
    /\ arg = 0
    /\ outcome = "none"
    /\ npush = 0
    /\ secondPushed = NoPoint
    /\ paused_before = FALSE

EngineFrame == UNCHANGED <<driverVars, npush, secondPushed, paused_before>>

EngCalculateRectangular ==
    /\ pc = "engine"
    /\ \E n \in TermArgs : store_rectangular(n)
    /\ lastOp' = "calculate_rectangular"
    /\ UNCHANGED <<function_type, ftime>>
    /\ EngineFrame

EngCalculateSawtooth ==
    /\ pc = "engine"
    /\ \E n \in TermArgs : store_sawtooth(n)
    /\ lastOp' = "calculate_sawtooth"
    /\ UNCHANGED <<function_type, ftime>>
    /\ EngineFrame

EngUpdate ==
    /\ pc = "engine"
    /\ \E t \in 0..TwoPi :
          /\ ftime' = t
          /\ epicycles' = fourier_update(epicycles, t)
    /\ lastOp' = "update"
    /\ UNCHANGED <<function_type, max_terms, arg, outcome>>
    /\ EngineFrame

EngSetFunctionType ==
    /\ pc = "engine"
    /\ \E ft \in FunctionTypes : set_function_type(ft)
    /\ lastOp' = "set_function_type"
    /\ UNCHANGED ftime
    /\ EngineFrame

NextEngine ==
    \/ EngCalculateRectangular
    \/ EngCalculateSawtooth
    \/ EngUpdate
    \/ EngSetFunctionType

SpecEngine == InitEngine /\ [][NextEngine]_vars

\* ------------------------------------------------------------ the driver
wrap_time(t) == IF t >= TwoPi THEN t - TwoPi ELSE t

\* mutant: the wrap forgets to clear the trace
wrap_trace_kept(t, buf) == buf

wrap_trace(t, buf) == IF t >= TwoPi THEN <<>> ELSE buf

\* mutant: no eviction
push_unbounded(buf, point, capacity) == Append(buf, point)

\* mutant: pop() in place of pop(0)
push_evicts_newest(buf, point, capacity) ==
    LET appended == Append(buf, point)
    IN  IF Len(appended) > capacity THEN SubSeq(appended, 1, capacity)
        ELSE appended

push(buf, point, capacity) ==
    LET appended == Append(buf, point)
    IN  IF Len(appended) > capacity THEN Tail(appended) ELSE appended

\* mutant: the tick ignores the pause flag
update_runs_always(p) == TRUE

\* if not self.paused
update_runs(p) == ~p

\* self.paused = not self.paused
toggle(p) == ~p

\* self.animation_speed = speed_value / 2500.0, in quanta
update_speed(speed_value) == speed_value

\* mutant: the reset leaves the pause flag alone
reset_animation_keeps_pause ==
    /\ time' = 0
    /\ trace_points' = <<>>
    /\ paused' = paused

\* mutant: the reset leaves the trace alone
reset_animation_keeps_trace ==
    /\ time' = 0
    /\ trace_points' = trace_points
    /\ paused' = FALSE

reset_animation ==
    /\ time' = 0
    /\ trace_points' = <<>>
    /\ paused' = FALSE

update_terms(num_terms) ==
    IF function_type = "rectangular" THEN store_rectangular(num_terms)
    ELSE store_sawtooth(num_terms)

switch_function(func_type) ==
    /\ set_function_type(func_type)
    /\ reset_animation

\* The state FourierVisualizer.__init__ leaves; the configuration supplies
\* default_terms, animation_speed and trace_length.
Init ==
    /\ function_type = "rectangular"
    /\ \E default_terms \in MinTerms..MaxTerms :
          /\ epicycles = calculate_rectangular(default_terms)
          /\ max_terms = default_terms
          /\ arg = default_terms
          /\ slider_terms = default_terms
    /\ ftime = 0
    /\ time = 0
    /\ animation_speed \in SpeedSliderMin..SpeedSliderMax
    /\ paused = FALSE
    /\ trace_points = <<>>
    /\ max_trace_length \in 1..MaxCap
    /\ slider_speed = SpeedSliderInitial
    /\ running = TRUE
    /\ pc = "events"
    /\ lastOp = "init"
    /\ outcome = "returned"
    /\ npush = 0
    /\ secondPushed = NoPoint
    /\ paused_before = FALSE

Cleared == npush' = 0 /\ secondPushed' = NoPoint

\* handle_events: the slider of the term count moved to another value
UpdateTerms ==
    /\ pc = "events"
    /\ \E new_value \in MinTerms..MaxTerms :
          /\ new_value # slider_terms
          /\ slider_terms' = new_value
          /\ update_terms(new_value)
    /\ lastOp' = "terms"
    /\ paused_before' = paused
    /\ UNCHANGED <<function_type, ftime, time, animation_speed, paused,
                   trace_points, max_trace_length, slider_speed, running, pc,
                   npush, secondPushed>>

\* handle_events: the slider of the speed moved to another value
UpdateSpeed ==
    /\ pc = "events"
    /\ \E new_value \in SpeedSliderMin..SpeedSliderMax :
          /\ new_value # slider_speed
          /\ slider_speed' = new_value
          /\ animation_speed' = update_speed(new_value)
    /\ lastOp' = "speed"
    /\ paused_before' = paused
    /\ UNCHANGED <<engineVars, time, paused, trace_points, max_trace_length,
                   slider_terms, running, pc, arg, outcome, npush, secondPushed>>

\* handle_events: btn_rectangular or btn_sawtooth clicked
SwitchFunction ==
    /\ pc = "events"
    /\ \E func_type \in FunctionTypes : switch_function(func_type)
    /\ Cleared
    /\ lastOp' = "switch"
    /\ paused_before' = paused
    /\ UNCHANGED <<ftime, animation_speed, max_trace_length, slider_terms,
                   slider_speed, running, pc>>

\* handle_events: btn_pause clicked or SPACE pressed
TogglePause ==
    /\ pc = "events"
    /\ paused' = toggle(paused)
    /\ lastOp' = "toggle"
    /\ paused_before' = paused
    /\ UNCHANGED <<engineVars, time, animation_speed, trace_points,
                   max_trace_length, slider_terms, slider_speed, running, pc,
                   arg, outcome, npush, secondPushed>>

\* handle_events: btn_reset clicked or R pressed
ResetAnimation ==
    /\ pc = "events"
    /\ reset_animation
    /\ Cleared
    /\ lastOp' = "reset"
    /\ paused_before' = paused
    /\ UNCHANGED <<engineVars, animation_speed, max_trace_length, slider_terms,
                   slider_speed, running, pc, arg, outcome>>

\* handle_events: the window closed or ESC pressed
Quit ==
    /\ pc = "events"
    /\ running
    /\ running' = FALSE
    /\ lastOp' = "quit"
    /\ paused_before' = paused
    /\ UNCHANGED <<engineVars, time, animation_speed, paused, trace_points,
                   max_trace_length, slider_terms, slider_speed, pc,
                   arg, outcome, npush, secondPushed>>

\* FourierVisualizer.update, one tick
Update ==
    /\ pc = "events"
    /\ pc' = "draw"
    /\ paused_before' = paused
    /\ IF update_runs(paused)
       THEN LET advanced == time + animation_speed
                eps == fourier_update(epicycles, wrap_time(advanced))
                point == get_final_point(eps)
                count == IF advanced >= TwoPi THEN 1
                         ELSE IF npush > MaxCap THEN MaxCap + 2 ELSE npush + 1
            IN  /\ time' = wrap_time(advanced)
                /\ ftime' = wrap_time(advanced)
                /\ epicycles' = eps
                /\ trace_points' = push(wrap_trace(advanced, trace_points),
                                        point, max_trace_length)
                /\ lastOp' = IF advanced >= TwoPi THEN "wrap" ELSE "tick"
                /\ npush' = count
                /\ secondPushed' = IF count = 1 THEN NoPoint
                                   ELSE IF count = 2 THEN point
                                   ELSE secondPushed
       ELSE /\ lastOp' = "idle"
            /\ UNCHANGED <<time, ftime, epicycles, trace_points, npush,
                           secondPushed>>
    /\ UNCHANGED <<function_type, max_terms, animation_speed, paused,
                   max_trace_length, slider_terms, slider_speed, running,
                   arg, outcome>>

\* FourierVisualizer.draw, then the loop's test of self.running
Draw ==
    /\ pc = "draw"
    /\ pc' = IF running THEN "events" ELSE "done"
    /\ lastOp' = "draw"
    /\ paused_before' = paused
    /\ UNCHANGED <<engineVars, time, animation_speed, paused, trace_points,
                   max_trace_length, slider_terms, slider_speed, running,
                   arg, outcome, npush, secondPushed>>

Next ==
    \/ UpdateTerms
    \/ UpdateSpeed
    \/ SwitchFunction
    \/ TogglePause
    \/ ResetAnimation
    \/ Quit
    \/ Update
    \/ Draw

Spec == Init /\ [][Next]_vars

\* ---------------------------------------------------------------- claims
IsTick == pc = "events" /\ pc' = "draw"

\* C1: once an operation has completed, the trace buffer holds at most
\* max_trace_length points, for every positive capacity.
C1_TraceBounded == Len(trace_points) <= max_trace_length

C1_Witness ==
    /\ Len(trace_points) = max_trace_length
    /\ npush > max_trace_length
    /\ lastOp = "tick"

\* C2: a tick that takes time to 2*pi or beyond leaves time in [0, 2*pi) and
\* the trace holding that tick's own point only, the buffer having been
\* emptied by the wrap before the point was appended.
C2_WrapClears ==
    lastOp = "wrap" =>
        /\ time \in 0..(TwoPi - 1)
        /\ trace_points = <<get_final_point(epicycles)>>

C2_Witness == lastOp = "wrap" /\ time > 0 /\ Len(trace_points) = 1

\* C3: a generation call with num_terms <= 0 ends with InvalidTermCount.
C3_Rejected ==
    (lastOp \in {"calculate_rectangular", "calculate_sawtooth"} /\ arg <= 0) =>
        outcome = "InvalidTermCount"

\* C4 as stated: after a family switch or a term-count change the pause flag
\* is what it was before the command.
C4_PauseKept == lastOp \in {"switch", "terms"} => paused = paused_before

\* C4 amended: a term-count change leaves the pause flag as it was; a family
\* switch leaves the animation PLAYING, whatever it was before.
C4_TermsKeepSwitchPlays ==
    /\ lastOp = "terms" => paused = paused_before
    /\ lastOp = "switch" => ~paused

C4_Witness == lastOp = "switch" /\ paused_before /\ ~paused

\* C5 as stated: right after a family switch or a term-count change, time is
\* 0 and the trace buffer is empty.
C5_BothReset == lastOp \in {"switch", "terms"} => (time = 0 /\ trace_points = <<>>)

\* C5 amended: a family switch sets time to 0 and empties the trace buffer; a
\* term-count change leaves time and the trace buffer as they were.
C5_SwitchResetsTermsKeep ==
    [][ /\ lastOp' = "switch" => (time' = 0 /\ trace_points' = <<>>)
        /\ (lastOp' = "terms" /\ slider_terms' # slider_terms) =>
               (time' = time /\ trace_points' = trace_points) ]_vars

C5_Witness == lastOp = "terms" /\ time > 0 /\ trace_points # <<>>

\* C6: in every engine state the stored term count is positive and equals
\* the length of the epicycle sequence.
C6_TermCountIsLength == max_terms >= 1 /\ max_terms = Len(epicycles)

\* C7: for num_terms >= 1 a generation call leaves exactly num_terms
\* epicycles in generation order: rectangular has frequency 2k-1 and phase 0,
\* sawtooth has frequency k and phase 0 for odd k, pi for even k; every
\* frequency is >= 1 and every phase is 0 or pi.
C7_Generated ==
    /\ (lastOp = "calculate_rectangular" /\ arg >= 1) =>
           /\ Len(epicycles) = arg
           /\ \A k \in 1..arg :
                 epicycles[k].frequency = 2 * k - 1 /\ epicycles[k].phase = 0
    /\ (lastOp = "calculate_sawtooth" /\ arg >= 1) =>
           /\ Len(epicycles) = arg
           /\ \A k \in 1..arg :
                 /\ epicycles[k].frequency = k
                 /\ epicycles[k].phase = IF k % 2 = 1 THEN 0 ELSE Pi
    /\ \A k \in 1..Len(epicycles) :
           epicycles[k].frequency >= 1 /\ epicycles[k].phase \in {0, Pi}

C7_Witness ==
    /\ lastOp = "calculate_sawtooth"
    /\ arg = 2
    /\ epicycles[1].phase = 0
    /\ epicycles[2].phase = Pi

\* C8: the trace buffer is strict FIFO: a push onto a full buffer drops the
\* oldest point and keeps the others in order with the new point last, and
\* after max_trace_length + 1 pushes with no clear in between the first
\* element is the second point pushed.
C8_Fifo ==
    [][ (IsTick /\ ~paused) =>
          LET base == IF lastOp' = "wrap" THEN <<>> ELSE trace_points
              point == get_final_point(epicycles')
          IN  /\ Len(base) = max_trace_length =>
                    trace_points' = Tail(base) \o <<point>>
              /\ Len(base) < max_trace_length =>
                    trace_points' = base \o <<point>>
              /\ npush' = max_trace_length + 1 =>
                    /\ trace_points'[1] = secondPushed'
                    /\ trace_points'[Len(trace_points')] = point ]_vars

C8_Witness ==
    /\ lastOp = "tick"
    /\ npush = max_trace_length + 1
    /\ Len(trace_points) = max_trace_length
    /\ trace_points[1] = secondPushed

\* C9: whenever the renderer reads the engine, every epicycle's angle is
\* frequency * time + phase for the engine's current time.
C9_AnglesCurrent ==
    pc = "draw" =>
        \A k \in 1..Len(epicycles) :
            epicycles[k].angle = epicycles[k].frequency * ftime + epicycles[k].phase

\* C10: the animation starts PLAYING; a toggle flips the pause flag and leaves
\* time where it was; while PAUSED a tick leaves the driver time, the engine
\* time, every angle and the trace buffer unchanged, and time does not move
\* for as long as the animation stays PAUSED.
C10_PauseFreezes ==
    /\ ~paused
    /\ [][ /\ (lastOp' = "toggle" /\ vars' # vars) =>
                 /\ paused' = ~paused
                 /\ time' = time
                 /\ UNCHANGED <<ftime, epicycles, trace_points>>
           /\ (IsTick /\ paused) =>
                 UNCHANGED <<time, ftime, epicycles, trace_points>>
           /\ (paused /\ paused') => time' = time ]_vars

C10_Witness ==
    /\ lastOp = "idle"
    /\ paused
    /\ time > 0
    /\ trace_points # <<>>

====
